---- MODULE Spec2Model ----
(***************************************************************************)
(* Notes API (Fastify + Prisma): the route handlers of notes.ts and        *)
(* authors.ts, the tag normaliser of utils/tags.ts and the relational      *)
(* store of the init migration (Author, Note, Tag, _NoteToTag).            *)
(*                                                                         *)
(* A handler runs synchronously up to its first await; each awaited        *)
(* Prisma call is one later step, so requests interleave at the awaits.    *)
(***************************************************************************)
EXTENDS Integers, Sequences, FiniteSets, TLC

\* the tables, the requests, what the last committed write of each Note sent
\* (lastTags) and returned (lastOut), and a call of cleanTags on its own:
\* its argument (tagList) and its successive results (cleaned)
VARIABLES authors, notes, tags, noteToTag, clock, req, lastTags, lastOut, tagList, cleaned

vars == <<authors, notes, tags, noteToTag, clock, req, lastTags, lastOut, tagList, cleaned>>

(***************************************************************************)
(* Bounds of the model.                                                    *)
(***************************************************************************)
\* request slots: how many requests can be in flight at once
MaxReq == 2
\* Author rows the clients ask for in Spec
MaxAuthors == 1
\* Author rows the clients ask for in SpecSerial
MaxAuthorsSerial == 2
\* Note rows the clients ask for in Spec
MaxNotes == 2
\* Note rows the clients ask for in SpecSerial
MaxNotesSerial == 1
\* Note writes (creates and updates) the clients ask for
MaxClock == 3
\* entries of a tag list handed to cleanTags in SpecTags
MaxTags == 3

Reqs == 1..MaxReq

(***************************************************************************)
(* JavaScript values of a JSON body.  A string is a sequence of one-symbol *)
(* strings; a well-formed UUID is kept as one symbol of UuidSyms.          *)
(***************************************************************************)
UNDEF == [t |-> "undefined", v |-> <<>>]
NULL == [t |-> "null", v |-> <<>>]
\* a non-zero number (truthy, has no string methods)
NUM == [t |-> "number", v |-> <<>>]
Str(s) == [t |-> "string", v |-> s]
Arr(xs) == [t |-> "array", v |-> xs]

IsString(x) == x.t = "string"
\* JS truthiness of the values above: undefined, null and "" are falsy
Truthy(x) == ~(x.t \in {"undefined", "null"} \/ (x.t = "string" /\ x.v = <<>>))

AuthorIdSyms == <<"A1", "A2", "A3">>
NoteIdSyms == <<"N1", "N2", "N3">>
TagIdSyms == <<"T1", "T2", "T3", "T4", "T5", "T6", "T7", "T8">>
\* a well-formed UUID that the store never generates
GhostIdSym == "X9"

SeqRange(s) == {s[i] : i \in 1..Len(s)}

UuidSyms == SeqRange(AuthorIdSyms) \cup SeqRange(NoteIdSyms) \cup SeqRange(TagIdSyms) \cup {GhostIdSym}

\* uuid.validate on a string
isValidUUID(s) == Len(s) = 1 /\ s[1] \in UuidSyms

\* String.prototype.toLowerCase, symbol by symbol
LowerSym(c) == IF c = "A" THEN "a" ELSE IF c = "B" THEN "b" ELSE IF c = "T" THEN "t" ELSE c

toLowerCase(s) == [i \in 1..Len(s) |-> LowerSym(s[i])]

RECURSIVE TrimStart(_)
TrimStart(s) == IF s # <<>> /\ Head(s) = " " THEN TrimStart(Tail(s)) ELSE s

RECURSIVE TrimEnd(_)
TrimEnd(s) == IF s # <<>> /\ s[Len(s)] = " " THEN TrimEnd(SubSeq(s, 1, Len(s) - 1)) ELSE s

\* String.prototype.trim
trim(s) == TrimEnd(TrimStart(s))

\* Array.from(new Set(xs)): first occurrences, in order
RECURSIVE Dedupe(_)
Dedupe(xs) ==
  IF xs = <<>> THEN <<>>
  ELSE LET init == SubSeq(xs, 1, Len(xs) - 1)
           last == xs[Len(xs)]
       IN IF last \in SeqRange(init) THEN Dedupe(init) ELSE Append(Dedupe(init), last)

\* Array.prototype.filter(Boolean) on strings: drops ""
RECURSIVE FilterBoolean(_)
FilterBoolean(xs) ==
  IF xs = <<>> THEN <<>>
  ELSE IF Head(xs) = <<>> THEN FilterBoolean(Tail(xs))
       ELSE <<Head(xs)>> \o FilterBoolean(Tail(xs))

\* cleanTags that removes duplicates before it lowercases and trims
cleanTagsDedupeFirst(xs) ==
  IF \E i \in 1..Len(xs) : ~IsString(xs[i])
  THEN [threw |-> TRUE, v |-> <<>>]
  ELSE LET raw == Dedupe([i \in 1..Len(xs) |-> xs[i].v])
       IN [threw |-> FALSE,
           v |-> FilterBoolean([i \in 1..Len(raw) |-> trim(toLowerCase(raw[i]))])]

\* cleanTags without filter(Boolean)
cleanTagsKeepEmpty(xs) ==
  IF \E i \in 1..Len(xs) : ~IsString(xs[i])
  THEN [threw |-> TRUE, v |-> <<>>]
  ELSE [threw |-> FALSE, v |-> Dedupe([i \in 1..Len(xs) |-> trim(toLowerCase(xs[i].v))])]

\* cleanTags without toLowerCase
cleanTagsNoLower(xs) ==
  IF \E i \in 1..Len(xs) : ~IsString(xs[i])
  THEN [threw |-> TRUE, v |-> <<>>]
  ELSE [threw |-> FALSE, v |-> FilterBoolean(Dedupe([i \in 1..Len(xs) |-> trim(xs[i].v)]))]

\* cleanTags(tags) on the elements of an array; t.toLowerCase throws a
\* TypeError on an element that is not a string
cleanTags(xs) ==
  IF \E i \in 1..Len(xs) : ~IsString(xs[i])
  THEN [threw |-> TRUE, v |-> <<>>]
  ELSE [threw |-> FALSE,
        v |-> FilterBoolean(Dedupe([i \in 1..Len(xs) |-> trim(toLowerCase(xs[i].v))]))]

(***************************************************************************)
(* Requests.  A body is the parsed JSON object: a field that is absent is   *)
(* UNDEF, extra says the object holds a key other than the known ones, and *)
(* present = FALSE is a request that carries no body at all.               *)
(***************************************************************************)
Body(name, title, content, authorId, tgs, extra) ==
  [present |-> TRUE, extra |-> extra, name |-> name, title |-> title,
   content |-> content, authorId |-> authorId, tags |-> tgs]

NoBody ==
  [present |-> FALSE, extra |-> FALSE, name |-> UNDEF, title |-> UNDEF,
   content |-> UNDEF, authorId |-> UNDEF, tags |-> UNDEF]

\* Object.keys(body).length for a body that is an object
KeyCount(body) ==
  Cardinality({k \in {"name", "title", "content", "authorId", "tags"} : body[k] # UNDEF})
  + (IF body.extra THEN 1 ELSE 0)

NoOut == [note |-> {}, author |-> {}, tags |-> {}]

\* query is request.query.tags, list the array a list route sends, since
\* the number of Note writes committed when the nested tag write of a PATCH began
Idle ==
  [pc |-> "idle", route |-> "-", id |-> <<>>, body |-> NoBody, query |-> UNDEF,
   since |-> 0, status |-> 0, error |-> "", message |-> "", calls |-> <<>>, err |-> "",
   found |-> {}, snap |-> {}, out |-> NoOut, list |-> <<>>]

(***************************************************************************)
(* The store: the tables of the init migration.                            *)
(***************************************************************************)
Init ==
  /\ authors = {}
  /\ notes = {}
  /\ tags = {}
  /\ noteToTag = {}
  /\ clock = 0
  /\ req = [r \in Reqs |-> Idle]
  /\ lastTags = {}
  /\ lastOut = {}
  /\ tagList = <<>>
  /\ cleaned = <<>>

\* the lookup with its where clause lost: every row matches
authorFindUniqueAny(id) == authors

\* prisma.author.findUnique({ where: { id } }): the row, or none
authorFindUnique(id) == {a \in authors : a.id = id}

\* Note_authorId_fkey: the referenced Author row must exist
Note_authorId_fkey(authorId) == authorFindUnique(authorId) # {}

\* Tag_name_key dropped: any name may be inserted again
Tag_name_key_off(name) == TRUE

\* Tag_name_key: the unique index on Tag(name) admits a name no row holds
Tag_name_key(name) == \A t \in tags : t.name # name

TagsOf(noteId) == {t \in tags : [A |-> noteId, B |-> t.id] \in noteToTag}

TagNamesOf(noteId) == {t.name : t \in TagsOf(noteId)}

\* include: { author: true, tags: true }
NoteView(n, tgs, links) ==
  [note |-> {n}, author |-> {a \in authors : a.id = n.authorId},
   tags |-> {t \in tgs : [A |-> n.id, B |-> t.id] \in links}]

\* prisma.note.findUnique({ where: { id }, include })
noteFindUnique(id) == {n \in notes : n.id = id}

(***************************************************************************)
(* Replies.  Every handler body is a try block; its catch turns whatever   *)
(* was thrown into the handler's 500, except PATCH's, which first looks    *)
(* for its validation messages and for Prisma's P2025.                     *)
(***************************************************************************)
Reply(status, error, message) ==
  [k |-> "reply", status |-> status, error |-> error, message |-> message, err |-> ""]

BadRequest(message) == Reply(400, "Bad Request", message)

NotFound(message) == Reply(404, "Not Found", message)

Throw(err, message) ==
  [k |-> "throw", status |-> 0, error |-> "", message |-> message, err |-> err]

Await(call) ==
  [k |-> "await", status |-> 0, error |-> "", message |-> call, err |-> ""]

Finish(slot, o) ==
  [slot EXCEPT !.pc = "done", !.status = o.status, !.error = o.error,
               !.message = o.message, !.err = o.err]

Issue(slot, call) == [slot EXCEPT !.pc = call, !.calls = Append(@, call)]

\* a handler without its try and catch: what is thrown leaves the handler
CatchNothing(o, message) == o

\* catch (error) { ...; return reply.code(500).send(...) }
Catch500(o, message) ==
  IF o.k = "throw"
  THEN [Reply(500, "Internal Server Error", message) EXCEPT !.err = o.err]
  ELSE o

\* a synchronous stretch of a handler ends in a reply or in an awaited call
Settle(slot, o) == IF o.k = "await" THEN Issue(slot, o.message) ELSE Finish(slot, o)

Start(route, id, body) == [Idle EXCEPT !.route = route, !.id = id, !.body = body]

(***************************************************************************)
(* What the environment can do to an awaited store call: it runs, or it     *)
(* fails for a reason of its own (the connection, the pool).                *)
(***************************************************************************)
StoreOutcomes == {"ok", "down"}

\* a slot takes a request when it holds none or holds one already answered
Open(r) == req[r].pc \in {"idle", "done"}

StoreDown == Throw("StoreDown", "")

InFlight(calls) == Cardinality({q \in Reqs : req[q].pc \in calls})

UnchangedStore ==
  UNCHANGED <<authors, notes, tags, noteToTag, clock, lastTags, lastOut, tagList, cleaned>>

\* reply.code(2xx).send(row)
Send(slot, status, out) ==
  [slot EXCEPT !.pc = "done", !.status = status, !.out = out]

(***************************************************************************)
(* authorsRoutes                                                           *)
(***************************************************************************)
\* POST /authors without the check of the trimmed name
PostAuthorsSyncNoTrim(body) ==
  IF ~body.present THEN Throw("TypeError", "")
  ELSE IF ~Truthy(body.name) THEN BadRequest("Author name is required")
  ELSE IF ~IsString(body.name) THEN Throw("TypeError", "")
  ELSE Await("author.create")

\* POST /authors up to its await
PostAuthorsSync(body) ==
  IF ~body.present THEN Throw("TypeError", "")
  ELSE IF ~Truthy(body.name) THEN BadRequest("Author name is required")
  ELSE IF ~IsString(body.name) THEN Throw("TypeError", "")
  ELSE IF trim(body.name.v) = <<>> THEN BadRequest("Author name is required")
  ELSE Await("author.create")

PostAuthors(r, body) ==
  /\ Open(r)
  /\ LET o == Catch500(PostAuthorsSync(body), "Failed to create author")
     IN req' = [req EXCEPT ![r] = Settle(Start("POST /authors", <<>>, body), o)]
  /\ UnchangedStore

\* prisma.author.create and the reply
AuthorCreate(r, outcome) ==
  /\ req[r].pc = "author.create"
  /\ IF outcome = "down"
     THEN /\ req' = [req EXCEPT ![r] = Finish(@, Catch500(StoreDown, "Failed to create author"))]
          /\ UNCHANGED authors
     ELSE LET row == [id |-> <<AuthorIdSyms[Cardinality(authors) + 1]>>,
                      name |-> trim(req[r].body.name.v)]
          IN /\ authors' = authors \cup {row}
             /\ req' = [req EXCEPT ![r] = Send(@, 201, [NoOut EXCEPT !.author = {row}])]
  /\ UNCHANGED <<notes, tags, noteToTag, clock, lastTags, lastOut, tagList, cleaned>>

\* GET /:id up to its await, for authors and for notes
GetByIdSync(id, call) ==
  IF ~isValidUUID(id) THEN BadRequest("Invalid UUID format") ELSE Await(call)

GetAuthor(r, id) ==
  /\ Open(r)
  /\ LET o == Catch500(GetByIdSync(id, "author.get"), "Failed to fetch author")
     IN req' = [req EXCEPT ![r] = Settle(Start("GET /authors/:id", id, NoBody), o)]
  /\ UnchangedStore

\* prisma.author.findUnique and the reply
AuthorGet(r, outcome) ==
  /\ req[r].pc = "author.get"
  /\ LET author == authorFindUnique(req[r].id)
     IN req' = [req EXCEPT ![r] =
          IF outcome = "down" THEN Finish(@, Catch500(StoreDown, "Failed to fetch author"))
          ELSE IF author = {} THEN Finish(@, NotFound("Author not found"))
          ELSE Send(@, 200, [NoOut EXCEPT !.author = author])]
  /\ UnchangedStore

(***************************************************************************)
(* notesRoutes: GET /:id                                                  *)
(***************************************************************************)
GetNote(r, id) ==
  /\ Open(r)
  /\ LET o == Catch500(GetByIdSync(id, "note.get"), "Failed to fetch note")
     IN req' = [req EXCEPT ![r] = Settle(Start("GET /notes/:id", id, NoBody), o)]
  /\ UnchangedStore

\* prisma.note.findUnique without include.tags, and the reply
NoteGetNoTags(r, outcome) ==
  /\ req[r].pc = "note.get"
  /\ LET note == noteFindUnique(req[r].id)
     IN req' = [req EXCEPT ![r] =
          IF outcome = "down" THEN Finish(@, Catch500(StoreDown, "Failed to fetch note"))
          ELSE IF note = {} THEN Finish(@, NotFound("Note not found"))
          ELSE Send(@, 200, NoteView(CHOOSE n \in note : TRUE, {}, noteToTag))]
  /\ UnchangedStore

\* prisma.note.findUnique with its includes, and the reply
NoteGet(r, outcome) ==
  /\ req[r].pc = "note.get"
  /\ LET note == noteFindUnique(req[r].id)
     IN req' = [req EXCEPT ![r] =
          IF outcome = "down" THEN Finish(@, Catch500(StoreDown, "Failed to fetch note"))
          ELSE IF note = {} THEN Finish(@, NotFound("Note not found"))
          ELSE Send(@, 200, NoteView(CHOOSE n \in note : TRUE, tags, noteToTag))]
  /\ UnchangedStore

(***************************************************************************)
(* The list routes: GET / of authors and of notes.                         *)
(***************************************************************************)
\* the orders of keyed rows that an ascending sort allows; rows with equal
\* keys come in an order the database chooses
RECURSIVE Ascending(_)
Ascending(keyed) ==
  IF keyed = {} THEN {<<>>}
  ELSE UNION {{<<x.row>> \o rest : rest \in Ascending(keyed \ {x})} :
                x \in {y \in keyed : \A z \in keyed : y.key <= z.key}}

\* the symbols of the model in the order of their code points
Alphabet == <<" ", ",", "A", "B", "T", "a", "b", "c", "n", "t", "u">>

\* the rank of a name in the ascending order; the names of the model are
\* told apart by their first symbol
NameRank(name) ==
  IF name = <<>> THEN 0 ELSE CHOOSE i \in 1..Len(Alphabet) : Alphabet[i] = name[1]

\* prisma.author.findMany({ orderBy: { name: "asc" } })
authorFindMany == Ascending({[key |-> NameRank(a.name), row |-> a] : a \in authors})

GetAuthors(r) ==
  /\ Open(r)
  /\ req' = [req EXCEPT ![r] = Settle(Start("GET /authors", <<>>, NoBody), Await("author.findMany"))]
  /\ UnchangedStore

\* prisma.author.findMany and the reply
AuthorFindMany(r, outcome) ==
  /\ req[r].pc = "author.findMany"
  /\ IF outcome = "down"
     THEN req' = [req EXCEPT ![r] = Finish(@, Catch500(StoreDown, "Failed to fetch authors"))]
     ELSE \E rows \in authorFindMany :
            req' = [req EXCEPT ![r] = [Send(@, 200, NoOut) EXCEPT !.list = rows]]
  /\ UnchangedStore

\* String.prototype.split(",")
RECURSIVE split(_)
split(s) ==
  IF \A i \in 1..Len(s) : s[i] # "," THEN <<s>>
  ELSE LET k == CHOOSE i \in 1..Len(s) : s[i] = "," /\ \A j \in 1..(i - 1) : s[j] # ","
       IN <<SubSeq(s, 1, k - 1)>> \o split(SubSeq(s, k + 1, Len(s)))

\* tags.split(",").map((tag) => tag.toLowerCase().trim())
queryNames(q) == LET pieces == split(q) IN [i \in 1..Len(pieces) |-> trim(toLowerCase(pieces[i]))]

\* where built for every tags value that is not undefined, "" included
noteWhereDefined(query) ==
  IF query = UNDEF THEN notes
  ELSE {n \in notes : TagNamesOf(n.id) \cap SeqRange(queryNames(query.v)) # {}}

\* where with every in place of some: the notes that have all the names
noteWhereEvery(query) ==
  IF ~Truthy(query) THEN notes
  ELSE {n \in notes : SeqRange(queryNames(query.v)) \subseteq TagNamesOf(n.id)}

\* where: the notes with some tag whose name is in the list, or {} for a
\* query that is absent or ""
noteWhere(query) ==
  IF ~Truthy(query) THEN notes
  ELSE {n \in notes : TagNamesOf(n.id) \cap SeqRange(queryNames(query.v)) # {}}

\* prisma.note.findMany({ where, include, orderBy: { createdAt: "desc" } })
noteFindMany(query) ==
  Ascending({[key |-> 0 - n.createdAt, row |-> NoteView(n, tags, noteToTag)] :
               n \in noteWhere(query)})

\* GET / of notes up to its await: a tags parameter given twice arrives as an
\* array, which has no split
GetNotesSync(query) ==
  IF Truthy(query) /\ ~IsString(query) THEN Throw("TypeError", "")
  ELSE Await("note.findMany")

GetNotes(r, query) ==
  /\ Open(r)
  /\ LET o == Catch500(GetNotesSync(query), "Failed to fetch notes")
     IN req' = [req EXCEPT ![r] =
                  Settle([Start("GET /notes", <<>>, NoBody) EXCEPT !.query = query], o)]
  /\ UnchangedStore

\* prisma.note.findMany and the reply
NoteFindMany(r, outcome) ==
  /\ req[r].pc = "note.findMany"
  /\ IF outcome = "down"
     THEN req' = [req EXCEPT ![r] = Finish(@, Catch500(StoreDown, "Failed to fetch notes"))]
     ELSE \E rows \in noteFindMany(req[r].query) :
            req' = [req EXCEPT ![r] = [Send(@, 200, NoOut) EXCEPT !.list = rows]]
  /\ UnchangedStore

(***************************************************************************)
(* Nested writes.  Prisma runs a create or update with nested writes in a   *)
(* transaction; connectOrCreate first looks the tag up by name and then    *)
(* inserts it when the lookup found nothing, so two transactions can both  *)
(* find a name missing, and the one that inserts second fails on           *)
(* Tag_name_key with P2002 and is rolled back.                             *)
(***************************************************************************)
\* the names of the list that a Tag row holds now
ExistingNames(names) == {n \in SeqRange(names) : \E t \in tags : t.name = n}

\* connectOrCreate: names is the cleaned list, snap the names the lookups found
connectOrCreate(names, snap) ==
  LET Absent(n) == n \notin snap
      missing == SelectSeq(names, Absent)
      rows == {[id |-> <<TagIdSyms[Cardinality(tags) + i]>>, name |-> missing[i]] :
                 i \in 1..Len(missing)}
      kept == {CHOOSE t \in tags : t.name = n : n \in SeqRange(names) \cap snap}
  IN [violates |-> \E i \in 1..Len(missing) : ~Tag_name_key(missing[i]),
      rows |-> rows,
      link |-> {t.id : t \in rows \cup kept}]

TagRoom(names, snap) ==
  Cardinality(tags) + Cardinality(SeqRange(names) \ snap) <= Len(TagIdSyms)

SetLastTags(noteId, tgs) ==
  {e \in lastTags : e.note # noteId} \cup {[note |-> noteId, tags |-> tgs]}

\* what the last committed write of the note returned
SetLastOut(noteId, out) ==
  {e \in lastOut : e.note # noteId} \cup {[note |-> noteId, out |-> out]}

NoteWriters ==
  {"author.findUnique", "note.create", "note.create.write", "note.update", "note.update.write"}

NoteCreators == {"author.findUnique", "note.create", "note.create.write"}

(***************************************************************************)
(* notesRoutes: POST /                                                     *)
(***************************************************************************)
\* const { tags = [] } = request.body
TagsOrDefault(body) == IF body.tags = UNDEF THEN Arr(<<>>) ELSE body.tags

\* content?.trim() || null
contentOrNull(content) ==
  IF content.t \in {"undefined", "null"} THEN NULL
  ELSE IF trim(content.v) = <<>> THEN NULL
  ELSE Str(trim(content.v))

\* POST / up to the author lookup: the four format checks, in the code's order
PostNotesSync(body) ==
  IF ~body.present THEN Throw("TypeError", "")
  ELSE IF ~Truthy(body.title) THEN BadRequest("Note title is required")
  ELSE IF ~IsString(body.title) THEN Throw("TypeError", "")
  ELSE IF trim(body.title.v) = <<>> THEN BadRequest("Note title is required")
  ELSE IF TagsOrDefault(body).t # "array" THEN BadRequest("Tags must be an array")
  ELSE IF ~Truthy(body.authorId) THEN BadRequest("authorId is required")
  ELSE IF ~IsString(body.authorId) THEN Throw("TypeError", "")
  ELSE IF trim(body.authorId.v) = <<>> THEN BadRequest("authorId is required")
  ELSE IF ~isValidUUID(body.authorId.v)
       THEN BadRequest("The provided authorId is not in valid UUID format")
  ELSE Await("author.findUnique")

PostNotes(r, body) ==
  /\ Open(r)
  /\ LET o == Catch500(PostNotesSync(body), "Failed to create note")
     IN req' = [req EXCEPT ![r] = Settle(Start("POST /notes", <<>>, body), o)]
  /\ UnchangedStore

\* POST / going on to the insert when the lookup found no author
PostNotesAfterLookupNoReturn(body, author) ==
  IF cleanTags(TagsOrDefault(body).v).threw THEN Throw("TypeError", "")
  ELSE IF ~(body.content.t \in {"undefined", "null", "string"}) THEN Throw("TypeError", "")
  ELSE Await("note.create")

\* POST / from the lookup's result to the issue of prisma.note.create
PostNotesAfterLookup(body, author) ==
  IF author = {} THEN NotFound("Author not found")
  ELSE IF cleanTags(TagsOrDefault(body).v).threw THEN Throw("TypeError", "")
  ELSE IF ~(body.content.t \in {"undefined", "null", "string"}) THEN Throw("TypeError", "")
  ELSE Await("note.create")

\* the data argument of prisma.note.create
noteCreateData(body) ==
  [title |-> trim(body.title.v),
   content |-> contentOrNull(body.content),
   authorId |-> body.authorId.v,
   tags |-> cleanTags(TagsOrDefault(body).v).v]

\* prisma.author.findUnique of POST /, and the handler up to its next await
NoteAuthorLookup(r, outcome) ==
  /\ req[r].pc = "author.findUnique"
  /\ LET author == authorFindUnique(req[r].body.authorId.v)
         o == Catch500(IF outcome = "down" THEN StoreDown
                       ELSE PostNotesAfterLookup(req[r].body, author),
                       "Failed to create note")
     IN req' = [req EXCEPT ![r] =
                  Settle([@ EXCEPT !.found = IF outcome = "down" THEN {} ELSE author], o)]
  /\ UnchangedStore

\* prisma.note.create: the lookups of its connectOrCreate
NoteCreateRead(r) ==
  /\ req[r].pc = "note.create"
  /\ req' = [req EXCEPT ![r] =
       [@ EXCEPT !.pc = "note.create.write",
                 !.snap = ExistingNames(noteCreateData(req[r].body).tags)]]
  /\ UnchangedStore

\* prisma.note.create: the inserts, the commit and the reply
NoteCreateWrite(r, outcome) ==
  /\ req[r].pc = "note.create.write"
  /\ LET data == noteCreateData(req[r].body)
         coc == connectOrCreate(data.tags, req[r].snap)
         now == clock + 1
         row == [id |-> <<NoteIdSyms[Cardinality(notes) + 1]>>, title |-> data.title,
                 content |-> data.content, authorId |-> data.authorId,
                 createdAt |-> now, updatedAt |-> now]
         links == {[A |-> row.id, B |-> b] : b \in coc.link}
         failure == IF outcome = "down" THEN StoreDown
                    ELSE IF ~Note_authorId_fkey(data.authorId) THEN Throw("P2003", "")
                    ELSE IF coc.violates THEN Throw("P2002", "")
                    ELSE Await("")
     IN /\ TagRoom(data.tags, req[r].snap)
        /\ IF failure.k = "throw"
           THEN /\ req' = [req EXCEPT ![r] = Finish(@, Catch500(failure, "Failed to create note"))]
                /\ UNCHANGED <<notes, tags, noteToTag, clock, lastTags, lastOut>>
           ELSE /\ notes' = notes \cup {row}
                /\ tags' = tags \cup coc.rows
                /\ noteToTag' = noteToTag \cup links
                /\ clock' = now
                /\ lastTags' = SetLastTags(row.id, TagsOrDefault(req[r].body))
                /\ lastOut' = SetLastOut(row.id, NoteView(row, tags \cup coc.rows, links))
                /\ req' = [req EXCEPT ![r] =
                             Send(@, 201, NoteView(row, tags \cup coc.rows, links))]
  /\ UNCHANGED <<authors, tagList, cleaned>>

(***************************************************************************)
(* notesRoutes: PATCH /:id                                                 *)
(***************************************************************************)
Pass == [k |-> "pass", status |-> 0, error |-> "", message |-> "", err |-> ""]

\* validateNotePatchRequest: what it throws, or Pass
validateNotePatchRequest(body) ==
  IF ~body.present THEN Throw("TypeError", "")
  ELSE IF KeyCount(body) = 0 THEN Throw("Error", "No fields to update provided")
  ELSE IF body.title # UNDEF /\ ~Truthy(body.title) THEN Throw("Error", "Title cannot be empty")
  ELSE IF body.title # UNDEF /\ ~IsString(body.title) THEN Throw("TypeError", "")
  ELSE IF body.title # UNDEF /\ trim(body.title.v) = <<>>
       THEN Throw("Error", "Title cannot be empty")
  ELSE IF body.tags # UNDEF /\ body.tags.t # "array" THEN Throw("Error", "Tags must be an array")
  ELSE Pass

NoData ==
  [hasTitle |-> FALSE, title |-> <<>>, hasContent |-> FALSE, content |-> NULL,
   hasTags |-> FALSE, tags |-> <<>>, threw |-> FALSE]

\* buildNoteUpdateData: the data argument of prisma.note.update, or a TypeError
buildNoteUpdateData(body) ==
  IF \/ body.content # UNDEF /\ ~IsString(body.content)
     \/ body.tags # UNDEF /\ cleanTags(body.tags.v).threw
  THEN [NoData EXCEPT !.threw = TRUE]
  ELSE [hasTitle |-> body.title # UNDEF,
        title |-> IF body.title # UNDEF THEN trim(body.title.v) ELSE <<>>,
        hasContent |-> body.content # UNDEF,
        content |-> IF body.content # UNDEF THEN contentOrNull(body.content) ELSE NULL,
        hasTags |-> body.tags # UNDEF,
        tags |-> IF body.tags # UNDEF THEN cleanTags(body.tags.v).v ELSE <<>>,
        threw |-> FALSE]

PatchValidationErrors ==
  {"No fields to update provided", "Title cannot be empty", "Tags must be an array"}

\* the catch block of PATCH /:id without its P2025 branch
PatchCatchNoP2025(o) ==
  IF o.k # "throw" THEN o
  ELSE IF o.message \in PatchValidationErrors
       THEN [BadRequest(o.message) EXCEPT !.err = o.err]
  ELSE [Reply(500, "Internal Server Error", "Failed to update note") EXCEPT !.err = o.err]

\* the catch block of PATCH /:id
PatchCatch(o) ==
  IF o.k # "throw" THEN o
  ELSE IF o.message \in PatchValidationErrors
       THEN [BadRequest(o.message) EXCEPT !.err = o.err]
  ELSE IF o.err = "P2025" THEN [NotFound("Note not found") EXCEPT !.err = o.err]
  ELSE [Reply(500, "Internal Server Error", "Failed to update note") EXCEPT !.err = o.err]

\* PATCH /:id validating the body before the path id
PatchNotesSyncBodyFirst(id, body) ==
  LET v == validateNotePatchRequest(body)
  IN IF v.k = "throw" THEN v
     ELSE IF ~isValidUUID(id) THEN BadRequest("Invalid UUID format")
     ELSE IF buildNoteUpdateData(body).threw THEN Throw("TypeError", "")
     ELSE Await("note.update")

\* PATCH /:id up to the issue of prisma.note.update
PatchNotesSync(id, body) ==
  IF ~isValidUUID(id) THEN BadRequest("Invalid UUID format")
  ELSE LET v == validateNotePatchRequest(body)
       IN IF v.k = "throw" THEN v
          ELSE IF buildNoteUpdateData(body).threw THEN Throw("TypeError", "")
          ELSE Await("note.update")

PatchNotes(r, id, body) ==
  /\ Open(r)
  /\ LET o == PatchCatch(PatchNotesSync(id, body))
     IN req' = [req EXCEPT ![r] = Settle(Start("PATCH /notes/:id", id, body), o)]
  /\ UnchangedStore

\* tags: { set: [], connectOrCreate } with a set that empties the whole
\* join table
noteUpdateLinksClearAll(noteId, link) == {[A |-> noteId, B |-> b] : b \in link}

\* tags: { set: [], connectOrCreate } with the set applied after the connects
noteUpdateLinksSetLast(noteId, link) == {l \in noteToTag : l.A # noteId}

\* tags: { set: [], connectOrCreate } merging into the old associations
noteUpdateLinksMerge(noteId, link) ==
  noteToTag \cup {[A |-> noteId, B |-> b] : b \in link}

\* tags: { set: [], connectOrCreate }: the old associations of the note go,
\* the connected ones come
noteUpdateLinks(noteId, link) ==
  {l \in noteToTag : l.A # noteId} \cup {[A |-> noteId, B |-> b] : b \in link}

\* an update that writes title and content whether data names them or not
noteUpdateRowAll(n, data, now) ==
  [n EXCEPT !.title = data.title, !.content = data.content, !.updatedAt = now]

\* the columns prisma.note.update writes: those data names, and updatedAt
noteUpdateRow(n, data, now) ==
  [n EXCEPT !.title = IF data.hasTitle THEN data.title ELSE @,
            !.content = IF data.hasContent THEN data.content ELSE @,
            !.updatedAt = now]

\* prisma.note.update: the row lookup; without tags in data also the write
\* and the reply, with tags the lookups of connectOrCreate
NoteUpdate(r, outcome) ==
  /\ req[r].pc = "note.update"
  /\ LET data == buildNoteUpdateData(req[r].body)
         note == noteFindUnique(req[r].id)
         now == clock + 1
     IN IF outcome = "down" \/ note = {}
        THEN /\ req' = [req EXCEPT ![r] =
                  Finish(@, PatchCatch(IF outcome = "down" THEN StoreDown
                                       ELSE Throw("P2025", "")))]
             /\ UNCHANGED <<notes, clock, lastOut>>
        ELSE IF data.hasTags
        THEN /\ req' = [req EXCEPT ![r] =
                  [@ EXCEPT !.pc = "note.update.write", !.since = clock,
                             !.snap = ExistingNames(data.tags)]]
             /\ UNCHANGED <<notes, clock, lastOut>>
        ELSE LET n == CHOOSE n \in note : TRUE
                 row == noteUpdateRow(n, data, now)
             IN /\ notes' = (notes \ {n}) \cup {row}
                /\ clock' = now
                /\ lastOut' = SetLastOut(row.id, NoteView(row, tags, noteToTag))
                /\ req' = [req EXCEPT ![r] = Send(@, 200, NoteView(row, tags, noteToTag))]
  /\ UNCHANGED <<authors, tags, noteToTag, lastTags, tagList, cleaned>>

\* prisma.note.update with tags: the writes, the commit and the reply
NoteUpdateWrite(r, outcome) ==
  /\ req[r].pc = "note.update.write"
  /\ LET data == buildNoteUpdateData(req[r].body)
         n == CHOOSE n \in notes : n.id = req[r].id
         coc == connectOrCreate(data.tags, req[r].snap)
         now == clock + 1
         row == noteUpdateRow(n, data, now)
         links == noteUpdateLinks(n.id, coc.link)
     IN /\ TagRoom(data.tags, req[r].snap)
        /\ IF outcome = "down" \/ coc.violates
           THEN /\ req' = [req EXCEPT ![r] =
                     Finish(@, PatchCatch(IF outcome = "down" THEN StoreDown
                                          ELSE Throw("P2002", "")))]
                /\ UNCHANGED <<notes, tags, noteToTag, clock, lastTags, lastOut>>
           ELSE /\ notes' = (notes \ {n}) \cup {row}
                /\ tags' = tags \cup coc.rows
                /\ noteToTag' = links
                /\ clock' = now
                /\ lastTags' = SetLastTags(n.id, req[r].body.tags)
                /\ lastOut' = SetLastOut(n.id, NoteView(row, tags \cup coc.rows, links))
                /\ req' = [req EXCEPT ![r] = Send(@, 200, NoteView(row, tags \cup coc.rows, links))]
  /\ UNCHANGED <<authors, tagList, cleaned>>

(***************************************************************************)
(* The requests the clients send.                                          *)
(***************************************************************************)
Ids(syms) == {<<x>> : x \in syms}

\* ["A", " a"], ["b", "A"], [" ", "b "] and []: cleaned to [a], [b, a], [b], []
TagLists ==
  {Arr(<<>>),
   Arr(<<Str(<<"A">>), Str(<<" ", "a">>)>>),
   Arr(<<Str(<<"b">>), Str(<<"A">>)>>),
   Arr(<<Str(<<" ">>), Str(<<"b", " ">>)>>)}

\* absent, a string instead of an array, an array holding a number
OddTags == {UNDEF, Str(<<"a">>), Arr(<<Str(<<"a">>), NUM>>)}

AnyAuthorBodies ==
  {NoBody} \cup
  {Body(name, UNDEF, UNDEF, UNDEF, UNDEF, FALSE) :
     name \in {UNDEF, NUM, Str(<<" ">>), Str(<<" ", "n">>)}}

AnyPostNoteBodies ==
  {NoBody}
  \cup {Body(UNDEF, title, UNDEF, authorId, tgs, FALSE) :
          title \in {UNDEF, NUM, Str(<<" ">>), Str(<<" ", "t">>)},
          authorId \in {UNDEF, NUM, Str(<<"not-a-uuid">>), Str(<<"A1">>), Str(<<"X9">>)},
          tgs \in OddTags \cup {Arr(<<Str(<<"A">>), Str(<<" ", "a">>)>>)}}
  \cup {Body(UNDEF, Str(<<" ", "t">>), content, authorId, tgs, FALSE) :
          content \in {NUM, Str(<<" ", "c">>)},
          authorId \in {Str(<<"A1">>), Str(<<"X9">>)},
          tgs \in TagLists}

AnyPatchBodies ==
  {NoBody, Body(UNDEF, UNDEF, UNDEF, UNDEF, UNDEF, FALSE), Body(UNDEF, UNDEF, UNDEF, UNDEF, UNDEF, TRUE)}
  \cup {Body(UNDEF, title, content, UNDEF, tgs, FALSE) :
          title \in {UNDEF, NUM, Str(<<" ">>), Str(<<"u", " ">>)},
          content \in {UNDEF, NUM, Str(<<" ">>)},
          tgs \in OddTags \cup {Arr(<<Str(<<"b">>), Str(<<"A">>)>>)}}
  \cup {Body(UNDEF, UNDEF, UNDEF, UNDEF, tgs, FALSE) : tgs \in TagLists}

AnyPathIds == Ids({"not-a-uuid", "N1", "X9"})

AnyAuthorPathIds == Ids({"not-a-uuid", "A1", "X9"})

\* absent, "", ",", " ", "a", " A,c", "b", and the parameter given twice
AnyTagQueries ==
  {UNDEF, Str(<<>>), Str(<<",">>), Str(<<" ">>), Str(<<"a">>), Str(<<" ", "A", ",", "c">>),
   Str(<<"b">>), Arr(<<Str(<<"a">>), Str(<<"b">>)>>)}

\* the well-formed writes that race in Spec
CoreTagLists ==
  {Arr(<<Str(<<"A">>), Str(<<" ", "a">>)>>), Arr(<<Str(<<"b">>), Str(<<"A">>)>>)}

CoreAuthorBodies == {Body(Str(<<" ", "n">>), UNDEF, UNDEF, UNDEF, UNDEF, FALSE)}

CorePostNoteBodies ==
  {Body(UNDEF, Str(<<" ", "t">>), UNDEF, Str(<<"A1">>), tgs, FALSE) : tgs \in CoreTagLists}
  \cup {Body(UNDEF, Str(<<" ", "t">>), UNDEF, Str(<<"X9">>), UNDEF, FALSE)}

\* the lists a PATCH carries: two that share no name once cleaned
CorePatchTagLists ==
  {Arr(<<Str(<<"A">>), Str(<<" ", "a">>)>>), Arr(<<Str(<<" ">>), Str(<<"b", " ">>)>>)}

CorePatchBodies ==
  {Body(UNDEF, UNDEF, UNDEF, UNDEF, tgs, FALSE) : tgs \in CorePatchTagLists}

CorePathIds == Ids({"N1"})

(***************************************************************************)
(* Specifications.  Spec: well-formed writes, up to MaxReq in flight and   *)
(* interleaved at their awaits, on a store that answers every call.        *)
(* SpecSerial: any request, one at a time, on a store that can fail.       *)
(* In Spec a slot takes its next request as soon as it has replied.         *)
(***************************************************************************)
\* a request takes the lowest open slot
Free(r) == Open(r) /\ \A q \in Reqs : q < r => ~Open(q)

AllIdle == \A q \in Reqs : req[q].pc = "idle"

\* the reply has left and the connection waits for its next request
Respond(r) ==
  /\ req[r].pc = "done"
  /\ req' = [req EXCEPT ![r] = Idle]
  /\ UnchangedStore

\* the clients stop asking for rows and writes at the bounds
AuthorRoom(max) == Cardinality(authors) + InFlight({"author.create"}) < max

WriteRoom == clock + InFlight(NoteWriters) < MaxClock

NoteRoom(max) == Cardinality(notes) + InFlight(NoteCreators) < max /\ WriteRoom

SendPostAuthors(r, bodies, max) ==
  \E body \in bodies :
    /\ Free(r)
    /\ PostAuthorsSync(body).k = "await" => AuthorRoom(max)
    /\ PostAuthors(r, body)

SendPostNotes(r, bodies, max) ==
  \E body \in bodies :
    /\ Free(r)
    /\ PostNotesSync(body).k = "await" => NoteRoom(max)
    /\ PostNotes(r, body)

SendPatchNotes(r, ids, bodies) ==
  \E id \in ids, body \in bodies :
    /\ Free(r)
    /\ PatchNotesSync(id, body).k = "await" => WriteRoom
    /\ PatchNotes(r, id, body)

SendGetAuthor(r) == \E id \in AnyAuthorPathIds : Free(r) /\ GetAuthor(r, id)

SendGetNote(r) == \E id \in AnyPathIds : Free(r) /\ GetNote(r, id)

SendGetAuthors(r) == Free(r) /\ GetAuthors(r)

SendGetNotes(r) == \E query \in AnyTagQueries : Free(r) /\ GetNotes(r, query)

Next ==
  \/ \E r \in Reqs : SendPostAuthors(r, CoreAuthorBodies, MaxAuthors)
  \/ \E r \in Reqs : SendPostNotes(r, CorePostNoteBodies, MaxNotes)
  \/ \E r \in Reqs : SendPatchNotes(r, CorePathIds, CorePatchBodies)
  \/ \E r \in Reqs : AuthorCreate(r, "ok")
  \/ \E r \in Reqs : NoteAuthorLookup(r, "ok")
  \/ \E r \in Reqs : NoteCreateRead(r)
  \/ \E r \in Reqs : NoteCreateWrite(r, "ok")
  \/ \E r \in Reqs : NoteUpdate(r, "ok")
  \/ \E r \in Reqs : NoteUpdateWrite(r, "ok")

NextSerial ==
  \/ \E r \in Reqs : AllIdle /\ SendPostAuthors(r, AnyAuthorBodies, MaxAuthorsSerial)
  \/ \E r \in Reqs : AllIdle /\ SendGetAuthor(r)
  \/ \E r \in Reqs : AllIdle /\ SendGetNote(r)
  \/ \E r \in Reqs : AllIdle /\ SendGetAuthors(r)
  \/ \E r \in Reqs : AllIdle /\ SendGetNotes(r)
  \/ \E r \in Reqs : AllIdle /\ SendPostNotes(r, AnyPostNoteBodies, MaxNotesSerial)
  \/ \E r \in Reqs : AllIdle /\ SendPatchNotes(r, AnyPathIds, AnyPatchBodies)
  \/ \E r \in Reqs, outcome \in StoreOutcomes : AuthorCreate(r, outcome)
  \/ \E r \in Reqs, outcome \in StoreOutcomes : AuthorGet(r, outcome)
  \/ \E r \in Reqs, outcome \in StoreOutcomes : NoteGet(r, outcome)
  \/ \E r \in Reqs, outcome \in StoreOutcomes : AuthorFindMany(r, outcome)
  \/ \E r \in Reqs, outcome \in StoreOutcomes : NoteFindMany(r, outcome)
  \/ \E r \in Reqs, outcome \in StoreOutcomes : NoteAuthorLookup(r, outcome)
  \/ \E r \in Reqs : NoteCreateRead(r)
  \/ \E r \in Reqs, outcome \in StoreOutcomes : NoteCreateWrite(r, outcome)
  \/ \E r \in Reqs, outcome \in StoreOutcomes : NoteUpdate(r, outcome)
  \/ \E r \in Reqs, outcome \in StoreOutcomes : NoteUpdateWrite(r, outcome)
  \/ \E r \in Reqs : Respond(r)

\* cleanTags on its own: the strings of a tag list
TagStrings ==
  {<<>>, <<" ">>, <<"a">>, <<"A">>, <<" ", "a">>, <<"A", " ">>, <<"b">>,
   <<" ", "B", " ">>, <<"a", " ", "b">>, <<"a", "B">>}

AnyStringLists ==
  UNION {{[i \in 1..n |-> Str(f[i])] : f \in [1..n -> TagStrings]} : n \in 0..MaxTags}

InitTags ==
  /\ authors = {}
  /\ notes = {}
  /\ tags = {}
  /\ noteToTag = {}
  /\ clock = 0
  /\ req = [r \in Reqs |-> Idle]
  /\ lastTags = {}
  /\ lastOut = {}
  /\ tagList \in AnyStringLists
  /\ cleaned = <<>>

\* cleanTags(tags)
CleanTags ==
  /\ cleaned = <<>>
  /\ cleaned' = <<cleanTags(tagList).v>>
  /\ UNCHANGED <<authors, notes, tags, noteToTag, clock, req, lastTags, lastOut, tagList>>

\* cleanTags on the array the first call returned
CleanTagsAgain ==
  /\ Len(cleaned) = 1
  /\ cleaned' = Append(cleaned, cleanTags([i \in 1..Len(cleaned[1]) |-> Str(cleaned[1][i])]).v)
  /\ UNCHANGED <<authors, notes, tags, noteToTag, clock, req, lastTags, lastOut, tagList>>

NextTags == CleanTags \/ CleanTagsAgain

Spec == Init /\ [][Next]_vars

SpecTags == InitTags /\ [][NextTags]_vars

SpecSerial == Init /\ [][NextSerial]_vars

(***************************************************************************)
(* Properties.                                                             *)
(***************************************************************************)
Done(r, route) == req[r].pc = "done" /\ req[r].route = route

Names(rows) == {t.name : t \in rows}

\* the distinct lowercased, trimmed, non-empty names of an array of strings
DistinctNames(xs) == {trim(toLowerCase(xs[i].v)) : i \in 1..Len(xs)} \ {<<>>}

\* C1: the tag names of every Note are those of cleanTags of the tags of the
\* most recent successful create or PATCH-with-tags on it: such a PATCH
\* replaces the associations, a PATCH without tags leaves them
C1_TagsAreLastCleanedList ==
  \A n \in notes :
    /\ Cardinality({e \in lastTags : e.note = n.id}) = 1
    /\ \A e \in lastTags :
         e.note = n.id => TagNamesOf(n.id) = SeqRange(cleanTags(e.tags.v).v)

\* a PATCH with tags has succeeded and a Tag row that the Note no longer
\* has is left in the store
C1_Witness ==
  \E r \in Reqs :
    /\ Done(r, "PATCH /notes/:id")
    /\ req[r].status = 200
    /\ req[r].body.tags # UNDEF
    /\ TagNamesOf(req[r].id) # {}
    /\ \E t \in tags : t \notin TagsOf(req[r].id)

\* C2: a POST /notes that reaches the author lookup with an authorId no
\* Author row has is answered 404 "Not Found" and issues no insert
C2_UnknownAuthorIs404 ==
  \A r \in Reqs :
    ( /\ Done(r, "POST /notes")
      /\ req[r].calls # <<>>
      /\ req[r].err # "StoreDown"
      /\ {a \in authors : a.id = req[r].body.authorId.v} = {} )
    => /\ req[r].status = 404
       /\ req[r].error = "Not Found"
       /\ req[r].calls = <<"author.findUnique">>
       /\ req[r].out = NoOut
       /\ \A n \in notes : n.authorId # req[r].body.authorId.v

\* such a request has been answered, one with tags to create
C2_Witness ==
  \E r \in Reqs :
    /\ Done(r, "POST /notes")
    /\ req[r].status = 404
    /\ req[r].body.authorId = Str(<<"X9">>)
    /\ req[r].body.tags \in TagLists \ {Arr(<<>>)}
    /\ authors # {}

\* C3: every stored Note has one authorId, the id of exactly one stored Author
C3_NoteAuthorExists ==
  \A n \in notes : Cardinality({a \in authors : a.id = n.authorId}) = 1

\* a Note is stored while another request is between its lookup and its insert
C3_Witness ==
  /\ notes # {}
  /\ \E r \in Reqs : req[r].pc \in {"note.create", "note.create.write"}

\* C4: no two Tag rows hold the same name
C4_TagNamesUnique ==
  \A t1 \in tags : \A t2 \in tags : t1.name = t2.name => t1 = t2

\* a write has connected a Tag row that was there already, and two Notes
\* share a Tag row
C4_Witness ==
  /\ \E r \in Reqs : req[r].pc = "done" /\ req[r].status \in {200, 201} /\ req[r].snap # {}
  /\ \E l1 \in noteToTag : \E l2 \in noteToTag : l1.A # l2.A /\ l1.B = l2.B

\* C5: a request that met the unique violation on Tag name still succeeds
C5_TagRaceIsBenign ==
  \A r \in Reqs :
    (req[r].pc = "done" /\ req[r].err = "P2002") => req[r].status \in {200, 201}

\* C6: a POST /notes answered 201 has stored the Note with exactly the
\* distinct lowercased, trimmed, non-empty names of its tag list, one Tag
\* row per name, and returns those tags and the nested author
C6_CreateStoresCleanedTags ==
  \A r \in Reqs :
    (Done(r, "POST /notes") /\ req[r].status = 201) =>
      LET T == TagsOrDefault(req[r].body).v
          names == DistinctNames(T)
          out == req[r].out
      IN /\ Cardinality(out.note) = 1
         /\ \A n \in out.note :
              /\ n \in notes
              /\ n.authorId = req[r].body.authorId.v
              /\ TagsOf(n.id) = out.tags
              /\ out.author = {a \in authors : a.id = n.authorId}
         /\ Cardinality(out.author) = 1
         /\ Names(out.tags) = names
         /\ names = SeqRange(cleanTags(T).v)
         /\ Cardinality(out.tags) = Cardinality(names)
         /\ Cardinality(out.tags) = Len(cleanTags(T).v)
         /\ \A name \in names : Cardinality({t \in tags : t.name = name}) = 1

\* a list of two entries that differ by case and whitespace was stored as one tag
C6_Witness ==
  \E r \in Reqs :
    /\ Done(r, "POST /notes")
    /\ req[r].status = 201
    /\ Len(TagsOrDefault(req[r].body).v) = 2
    /\ Cardinality(req[r].out.tags) = 1

NoUpdatableField(body) ==
  body.title = UNDEF /\ body.content = UNDEF /\ body.tags = UNDEF

\* C7: a PATCH on an existing Note whose body object holds none of title,
\* content and tags is answered 400 and never reaches the store
C7_NoFieldPatchIs400 ==
  \A r \in Reqs :
    ( /\ Done(r, "PATCH /notes/:id")
      /\ {n \in notes : n.id = req[r].id} # {}
      /\ req[r].body.present
      /\ NoUpdatableField(req[r].body) )
    => req[r].status = 400 /\ req[r].calls = <<>>

\* C8: GET /authors/:id, GET /notes/:id and PATCH /notes/:id answer a path id
\* that is no UUID with 400 and without a store call, whatever the body
C8_BadPathIdIs400 ==
  \A r \in Reqs :
    ( /\ req[r].pc = "done"
      /\ req[r].route \in {"GET /authors/:id", "GET /notes/:id", "PATCH /notes/:id"}
      /\ ~(Len(req[r].id) = 1 /\ req[r].id[1] \in UuidSyms) )
    => /\ req[r].status = 400
       /\ req[r].error = "Bad Request"
       /\ req[r].calls = <<>>

\* a PATCH with such an id and a body that fails validation too was answered
\* while the store held rows
C8_Witness ==
  \E r \in Reqs :
    /\ Done(r, "PATCH /notes/:id")
    /\ req[r].id = <<"not-a-uuid">>
    /\ ~req[r].body.present
    /\ req[r].status = 400
    /\ notes # {}

TitleMissing(body) ==
  ~Truthy(body.title) \/ (IsString(body.title) /\ trim(body.title.v) = <<>>)

TagsNotArray(body) == body.tags # UNDEF /\ body.tags.t # "array"

AuthorIdMissing(body) ==
  ~Truthy(body.authorId) \/ (IsString(body.authorId) /\ trim(body.authorId.v) = <<>>)

AuthorIdNotUuid(body) == ~(IsString(body.authorId) /\ isValidUUID(body.authorId.v))

\* the message of the first format check of POST /notes that the body violates
FirstViolated(body) ==
  IF TitleMissing(body) THEN "Note title is required"
  ELSE IF TagsNotArray(body) THEN "Tags must be an array"
  ELSE IF AuthorIdMissing(body) THEN "authorId is required"
  ELSE IF AuthorIdNotUuid(body) THEN "The provided authorId is not in valid UUID format"
  ELSE ""

\* C9: POST /notes answers with the error of the first violated check in
\* the order title, tags, authorId presence, authorId format (400), author
\* existence (404); the lookup is issued only after the four format checks
\* pass and the insert only after all five
C9_ChecksInOrder ==
  \A r \in Reqs :
    (Done(r, "POST /notes") /\ req[r].body.present) =>
      LET m == FirstViolated(req[r].body)
          unknown == {a \in authors : a.id = req[r].body.authorId.v} = {}
      IN /\ m # "" => /\ req[r].status = 400
                      /\ req[r].message = m
                      /\ req[r].calls = <<>>
         /\ (m = "" /\ unknown /\ req[r].err # "StoreDown") =>
              req[r].status = 404 /\ req[r].calls = <<"author.findUnique">>

TagsHoldNonString(body) ==
  /\ body.tags.t = "array"
  /\ \E i \in 1..Len(body.tags.v) : ~IsString(body.tags.v[i])

ContentNotString(body) == ~(body.content.t \in {"undefined", "string"})

\* the validation errors of a request: a missing body, a missing, blank or
\* wrongly typed field
ValidationError(route, body) ==
  CASE route = "POST /authors" ->
         ~body.present \/ ~Truthy(body.name) \/ ~IsString(body.name) \/ trim(body.name.v) = <<>>
    [] route = "POST /notes" ->
         \/ ~body.present
         \/ TitleMissing(body) \/ ~IsString(body.title)
         \/ TagsNotArray(body) \/ TagsHoldNonString(body)
         \/ ContentNotString(body)
         \/ AuthorIdMissing(body) \/ AuthorIdNotUuid(body)
    [] route = "PATCH /notes/:id" ->
         \/ ~body.present
         \/ KeyCount(body) = 0
         \/ body.title # UNDEF /\ (TitleMissing(body) \/ ~IsString(body.title))
         \/ TagsNotArray(body) \/ TagsHoldNonString(body)
         \/ ContentNotString(body)
    [] OTHER -> FALSE

\* C10: every validation error is answered 400 "Bad Request" before any
\* store call of the request
C10_ValidationIs400BeforeStore ==
  \A r \in Reqs :
    (req[r].pc = "done" /\ ValidationError(req[r].route, req[r].body)) =>
      /\ req[r].status = 400
      /\ req[r].error = "Bad Request"
      /\ req[r].calls = <<>>

\* the pieces of a string between its commas, each lowercased and trimmed
PieceNames(s) ==
  {trim(toLowerCase(SubSeq(s, i, j))) :
     <<i, j>> \in {w \in (1..(Len(s) + 1)) \X (0..Len(s)) :
                     /\ w[1] <= w[2] + 1
                     /\ \A k \in w[1]..w[2] : s[k] # ","
                     /\ (w[1] = 1 \/ s[w[1] - 1] = ",")
                     /\ (w[2] = Len(s) \/ s[w[2] + 1] = ",")}}

Listed(r) == UNION {req[r].list[i].note : i \in 1..Len(req[r].list)}

\* C11: GET /notes answered 200 for a non-empty tags string lists exactly
\* the stored Notes with at least one tag named by a piece of the string,
\* each once and with its tags; without the parameter it lists every Note
C11_ListFiltersByAnyTag ==
  \A r \in Reqs :
    (Done(r, "GET /notes") /\ req[r].status = 200) =>
      LET q == req[r].query
      IN /\ Len(req[r].list) = Cardinality(Listed(r))
         /\ \A i \in 1..Len(req[r].list) :
              \A n \in req[r].list[i].note : req[r].list[i] = NoteView(n, tags, noteToTag)
         /\ q = UNDEF => Listed(r) = notes
         /\ (IsString(q) /\ q.v # <<>>) =>
              Listed(r) = {n \in notes : \E t \in TagsOf(n.id) : t.name \in PieceNames(q.v)}

\* a query of two names listed a Note that has one of them and a tag the
\* query does not name
C11_Witness ==
  \E r \in Reqs :
    /\ Done(r, "GET /notes")
    /\ req[r].status = 200
    /\ Cardinality(PieceNames(req[r].query.v)) = 2
    /\ \E n \in Listed(r) :
         /\ TagNamesOf(n.id) \cap PieceNames(req[r].query.v) # {}
         /\ ~(PieceNames(req[r].query.v) \subseteq TagNamesOf(n.id))

\* the step in which the PATCH of slot r is answered 200
PatchCommits(r) ==
  /\ req[r].route = "PATCH /notes/:id"
  /\ req[r].pc # "done"
  /\ req'[r].pc = "done"
  /\ req'[r].status = 200

LinksOf(links, noteId) == {l \in links : l.A = noteId}

C13_CleanTagsIdempotent == Len(cleaned) = 2 => cleaned[2] = cleaned[1]

\* cleanTags ran twice on a list that it changed and cut to two names
C13_Witness ==
  /\ Len(cleaned) = 2
  /\ Len(tagList) = 3
  /\ Len(cleaned[1]) = 2
  /\ \E i \in 1..Len(tagList) : tagList[i].v \notin SeqRange(cleaned[1])

\* the entries of a list lowercased and trimmed, without the empty ones,
\* each kept where it comes first
FirstOccurrences(xs) ==
  LET norm == [i \in 1..Len(xs) |-> trim(toLowerCase(xs[i].v))]
      keep == {i \in 1..Len(xs) : norm[i] # <<>> /\ \A j \in 1..(i - 1) : norm[j] # norm[i]}
      Pick(k) == CHOOSE i \in keep : Cardinality({j \in keep : j < i}) = k - 1
  IN [k \in 1..Cardinality(keep) |-> norm[Pick(k)]]

\* C14: cleanTags returns the lowercased, trimmed, non-empty entries, each at
\* its first occurrence: no duplicate, no empty string, no leading or
\* trailing space, no uppercase symbol
C14_CleanTagsIsFirstOccurrences ==
  Len(cleaned) >= 1 =>
    LET out == cleaned[1]
    IN /\ out = FirstOccurrences(tagList)
       /\ \A i \in 1..Len(out) : \A j \in 1..Len(out) : out[i] = out[j] => i = j
       /\ \A i \in 1..Len(out) :
            /\ out[i] # <<>>
            /\ out[i][1] # " "
            /\ out[i][Len(out[i])] # " "
            /\ \A k \in 1..Len(out[i]) : out[i][k] \notin {"A", "B", "T"}

\* cleanTags returned one name for three entries: a blank one and two that
\* differ by case and spaces
C14_Witness ==
  /\ Len(cleaned) >= 1
  /\ Len(tagList) = 3
  /\ Len(cleaned[1]) = 1
  /\ \E i \in 1..3 : trim(tagList[i].v) = <<>>
  /\ \E i \in 1..3 : \E j \in 1..3 :
       /\ tagList[i].v # tagList[j].v
       /\ trim(tagList[i].v) # <<>>
       /\ trim(tagList[j].v) # <<>>

\* C15: a PATCH with a well-formed id of no stored Note and a body that
\* passes validation is answered 404 "Not Found" after the one update call,
\* and the step that answers it changes no table
C15_PatchUnknownNoteIs404 ==
  /\ [](\A r \in Reqs :
         ( /\ Done(r, "PATCH /notes/:id")
           /\ isValidUUID(req[r].id)
           /\ ~ValidationError(req[r].route, req[r].body)
           /\ req[r].err # "StoreDown"
           /\ {n \in notes : n.id = req[r].id} = {} )
         => /\ req[r].status = 404
            /\ req[r].error = "Not Found"
            /\ req[r].calls = <<"note.update">>)
  /\ [][\A r \in Reqs :
         ( /\ req[r].route = "PATCH /notes/:id"
           /\ req[r].pc # "done"
           /\ req'[r].pc = "done"
           /\ req'[r].status = 404 )
         => UNCHANGED <<authors, notes, tags, noteToTag>>]_vars

\* such a PATCH was answered: it named a tag that no Tag row holds, and the
\* store holds a Note
C15_Witness ==
  \E r \in Reqs :
    /\ Done(r, "PATCH /notes/:id")
    /\ req[r].status = 404
    /\ req[r].body.tags \in TagLists
    /\ \E name \in SeqRange(cleanTags(req[r].body.tags.v).v) : \A t \in tags : t.name # name
    /\ notes # {}

NameBlank(body) == ~Truthy(body.name) \/ (IsString(body.name) /\ trim(body.name.v) = <<>>)

C17_TagsAppendOnly ==
  [][/\ tags \subseteq tags'
     /\ \A l \in noteToTag \ noteToTag' :
          \E r \in Reqs :
            PatchCommits(r) /\ req[r].id = l.A /\ req[r].body.tags # UNDEF]_vars

\* a PATCH took a tag from its Note, and the Tag row is still stored and
\* still associated with another Note
C17_Witness ==
  \E r \in Reqs :
    /\ Done(r, "PATCH /notes/:id")
    /\ req[r].status = 200
    /\ \E t \in tags :
         /\ t \notin TagsOf(req[r].id)
         /\ \E n \in notes : n.id # req[r].id /\ t \in TagsOf(n.id)

\* C18: every answered request, whatever was sent and whatever the store
\* did, has status 200, 201, 400, 404 or 500; the error category is "Bad
\* Request" exactly for 400, "Not Found" exactly for 404 and "Internal
\* Server Error" exactly for 500, it comes with a message, and whatever was
\* thrown ended in such a reply
C18_EveryReplyIsWellFormed ==
  \A r \in Reqs :
    req[r].pc = "done" =>
      /\ req[r].status \in {200, 201, 400, 404, 500}
      /\ req[r].status = 400 <=> req[r].error = "Bad Request"
      /\ req[r].status = 404 <=> req[r].error = "Not Found"
      /\ req[r].status = 500 <=> req[r].error = "Internal Server Error"
      /\ req[r].status \in {200, 201} <=> req[r].error = ""
      /\ req[r].status \notin {200, 201} => req[r].message # ""
      /\ req[r].err \in {"TypeError", "StoreDown", "P2002", "P2003"} => req[r].status = 500

\* a store failure in the tag writes of a PATCH was answered
C18_Witness ==
  \E r \in Reqs :
    /\ req[r].pc = "done"
    /\ req[r].status = 500
    /\ req[r].route = "PATCH /notes/:id"
    /\ req[r].err = "StoreDown"
    /\ req[r].body.tags # UNDEF
    /\ req[r].snap # {}

\* C19: GET /notes/:id for a Note that a POST or PATCH wrote returns 200
\* with the title, content, authorId, nested author and tags that the last
\* such write returned; GET /notes/:id and GET /authors/:id with a
\* well-formed id of no row return 404
C19_ReadAfterWrite ==
  \A r \in Reqs :
    (req[r].pc = "done" /\ isValidUUID(req[r].id) /\ req[r].err # "StoreDown") =>
      /\ req[r].route = "GET /notes/:id" =>
           /\ \A e \in lastOut :
                e.note = req[r].id =>
                  /\ req[r].status = 200
                  /\ req[r].out.author = e.out.author
                  /\ req[r].out.tags = e.out.tags
                  /\ \A w \in e.out.note :
                       \E n \in req[r].out.note :
                         /\ n.id = w.id
                         /\ n.title = w.title
                         /\ n.content = w.content
                         /\ n.authorId = w.authorId
           /\ {n \in notes : n.id = req[r].id} = {} =>
                req[r].status = 404 /\ req[r].error = "Not Found"
      /\ req[r].route = "GET /authors/:id" =>
           /\ {a \in authors : a.id = req[r].id} = {} =>
                req[r].status = 404 /\ req[r].error = "Not Found"
           /\ {a \in authors : a.id = req[r].id} # {} =>
                req[r].status = 200 /\ req[r].out.author = {a \in authors : a.id = req[r].id}

\* a GET returned a Note with tags whose last write was a PATCH
C19_Witness ==
  \E r \in Reqs :
    /\ Done(r, "GET /notes/:id")
    /\ req[r].status = 200
    /\ req[r].out.tags # {}
    /\ \E n \in req[r].out.note : n.updatedAt > n.createdAt /\ n.content # NULL

TitleBlank(body) ==
  body.title # UNDEF /\ (~Truthy(body.title) \/ (IsString(body.title) /\ trim(body.title.v) = <<>>))

\* C20: a PATCH on an existing Note whose body has a blank title or tags
\* that are no array is answered 400 and the update is never issued,
\* whatever else the body carries
C20_PatchValidationAllOrNothing ==
  \A r \in Reqs :
    ( /\ Done(r, "PATCH /notes/:id")
      /\ {n \in notes : n.id = req[r].id} # {}
      /\ req[r].body.present
      /\ (TitleBlank(req[r].body) \/ TagsNotArray(req[r].body)) )
    => /\ req[r].status = 400
       /\ req[r].error = "Bad Request"
       /\ req[r].calls = <<>>

\* a PATCH that carried a tags array has returned 200
TagPatchDone(r) ==
  /\ Done(r, "PATCH /notes/:id")
  /\ req[r].status = 200
  /\ req[r].body.tags.t = "array"

Cleaned(r) == SeqRange(cleanTags(req[r].body.tags.v).v)

\* the write of r committed as the k-th write of a Note
CommittedAt(r, k) == \E m \in req[r].out.note : m.updatedAt = k

\* r and q ran concurrently: each began its tag write before the other committed
Overlap(r, q) ==
  /\ \E k \in 1..MaxClock + 1 : CommittedAt(q, k) /\ req[r].since < k
  /\ \E k \in 1..MaxClock + 1 : CommittedAt(r, k) /\ req[q].since < k

\* no write to the Note of r has committed after those of r and q
NoLaterWrite(r, q) ==
  \A n \in notes :
    n.id = req[r].id => CommittedAt(r, n.updatedAt) \/ CommittedAt(q, n.updatedAt)

\* C21: when two PATCH requests with tags ran concurrently on the same Note
\* and both returned 200, then, as long as no later write touched the Note,
\* its tag names are the cleaned list of one of the two as a whole, and the
\* tags in each of the two responses are the cleaned list of that request
C21_ConcurrentPatchesLeaveOneList ==
  \A r \in Reqs : \A q \in Reqs \ {r} :
    (/\ TagPatchDone(r)
     /\ TagPatchDone(q)
     /\ req[r].id = req[q].id
     /\ Overlap(r, q))
    => /\ Names(req[r].out.tags) = Cleaned(r)
       /\ Names(req[q].out.tags) = Cleaned(q)
       /\ NoLaterWrite(r, q) => TagNamesOf(req[r].id) \in {Cleaned(r), Cleaned(q)}

\* two concurrent PATCHes on one Note both returned 200, neither cleaned list
\* holds the other, and the Note has the list of the one that committed last
C21_Witness ==
  \E r \in Reqs : \E q \in Reqs \ {r} :
    /\ TagPatchDone(r)
    /\ TagPatchDone(q)
    /\ req[r].id = req[q].id
    /\ Overlap(r, q)
    /\ NoLaterWrite(r, q)
    /\ ~(Cleaned(r) \subseteq Cleaned(q))
    /\ ~(Cleaned(q) \subseteq Cleaned(r))
    /\ TagNamesOf(req[r].id) = Cleaned(q)
    /\ Names(req[r].out.tags) = Cleaned(r)

\* C22: no stored Tag has the empty name; GET /notes answered 200 for the
\* tags value "" lists every Note once, as it does without the parameter; for
\* a non-empty tags value whose pieces are all empty once trimmed it lists
\* no Note
C22_EmptyQueryListsAllEmptyPiecesNone ==
  /\ \A t \in tags : t.name # <<>>
  /\ \A r \in Reqs :
       (Done(r, "GET /notes") /\ req[r].status = 200) =>
         LET q == req[r].query
         IN /\ q \in {UNDEF, Str(<<>>)} =>
                 Listed(r) = notes /\ Len(req[r].list) = Cardinality(notes)
            /\ (IsString(q) /\ q.v # <<>> /\ PieceNames(q.v) = {<<>>}) =>
                 req[r].list = <<>>

\* the query "," listed nothing while a Note with a tag is stored
C22_Witness ==
  \E r \in Reqs :
    /\ Done(r, "GET /notes")
    /\ req[r].status = 200
    /\ req[r].query = Str(<<",">>)
    /\ req[r].list = <<>>
    /\ \E n \in notes : TagsOf(n.id) # {}

====
